---- MODULE Spec2Model ----
(***************************************************************************)
(* SCTE-35 splice_info_section decoder (scte35.py, SCTE35_Parser.parse).   *)
(*                                                                         *)
(* The input buffer is a sequence of bytes; the cursor `pos` is a bit      *)
(* offset into it, as bitstring's BitString.pos is.  A read that runs off  *)
(* the end raises bitstring.ReadError and leaves the cursor where it was;  *)
(* setting pos beyond the end raises ValueError.  Python dicts are         *)
(* functions from key strings to values, a key that was never assigned is  *)
(* not in the DOMAIN.  Fields wider than 31 bits are kept as their         *)
(* big-endian bit sequence (Python integers are unbounded, TLC's are not). *)
(* The component loop of splice_insert uses xrange: Python 2 semantics.    *)
(***************************************************************************)
EXTENDS Integers, Sequences, FiniteSets, TLC

VARIABLES
    input,      \* input_bytes, the buffer handed to parse
    pos,        \* input_bitarray.pos, the bit cursor
    pc,         \* position of the control flow inside parse
    section,    \* splice_info_section, the dict parse builds
    length,     \* the remaining byte budget of __parse_splice_descriptors
    results,    \* the list __parse_splice_descriptors collects
    err,        \* the exception raised (fatal) or printed (descriptor loop)
    ret         \* what parse returned

vars == <<input, pos, pc, section, length, results, err, ret>>

(***************************************************************************)
(* Python values                                                           *)
(***************************************************************************)
PyNone == [py_none |-> TRUE]
PyList(s) == [items |-> s]
EmptyDict == <<>>
Put(d, k, v) == (k :> v) @@ d
Unbound == [unbound |-> TRUE]
NoResult == [returned |-> FALSE]
Returned(v) == [returned |-> TRUE, value |-> v]

\* F applied to the value of x, x being evaluated once (a Python local)
Bind(x, F(_)) == CHOOSE r \in {F(v) : v \in {x}} : TRUE

(***************************************************************************)
(* bitstring: the bit cursor                                               *)
(***************************************************************************)
RECURSIVE Pow2(_)
Pow2(n) == IF n = 0 THEN 1 ELSE 2 * Pow2(n - 1)

BitLen(buf) == 8 * Len(buf)

Bit(buf, i) == (buf[(i \div 8) + 1] \div Pow2(7 - (i % 8))) % 2

CanRead(buf, p, n) == p + n <= BitLen(buf)

RECURSIVE ReadUint(_, _, _)
ReadUint(buf, p, n) ==
    IF n = 0 THEN 0 ELSE 2 * ReadUint(buf, p, n - 1) + Bit(buf, p + n - 1)

ReadBits(buf, p, n) == [i \in 1..n |-> Bit(buf, p + i - 1)]

HexDigit(d) ==
    CASE d = 0 -> "0" [] d = 1 -> "1" [] d = 2 -> "2" [] d = 3 -> "3"
      [] d = 4 -> "4" [] d = 5 -> "5" [] d = 6 -> "6" [] d = 7 -> "7"
      [] d = 8 -> "8" [] d = 9 -> "9" [] d = 10 -> "a" [] d = 11 -> "b"
      [] d = 12 -> "c" [] d = 13 -> "d" [] d = 14 -> "e" [] d = 15 -> "f"

RECURSIVE ReadHex(_, _, _)
ReadHex(buf, p, nibbles) ==
    IF nibbles = 0 THEN ""
    ELSE HexDigit(ReadUint(buf, p, 4)) \o ReadHex(buf, p + 4, nibbles - 1)

\* int(s, 16) of a two-digit lowercase hex string
HexValue(c) ==
    CASE c = "0" -> 0 [] c = "1" -> 1 [] c = "2" -> 2 [] c = "3" -> 3
      [] c = "4" -> 4 [] c = "5" -> 5 [] c = "6" -> 6 [] c = "7" -> 7
      [] c = "8" -> 8 [] c = "9" -> 9 [] c = "a" -> 10 [] c = "b" -> 11
      [] c = "c" -> 12 [] c = "d" -> 13 [] c = "e" -> 14 [] c = "f" -> 15

(***************************************************************************)
(* A decoder's progress: ok, the exception raised, the cursor, the dict.   *)
(* The statements of a straight-line stretch of code are a sequence of     *)
(* field operations, executed in order until one raises.                   *)
(***************************************************************************)
New(p) == [ok |-> TRUE, err |-> "", pos |-> p, value |-> EmptyDict]
Raise(st, e) == [st EXCEPT !.ok = FALSE, !.err = e]

Uint(f, n) == [k |-> "uint", f |-> f, n |-> n]
Wide(f, n) == [k |-> "wide", f |-> f, n |-> n]
Bool(f) == [k |-> "bool", f |-> f, n |-> 1]
Hex(f, nibbles) == [k |-> "hex", f |-> f, n |-> 4 * nibbles]
Skip(n) == [k |-> "skip", f |-> "", n |-> n]

Step(buf, st, op) ==
    IF op.k = "skip"
    THEN IF CanRead(buf, st.pos, op.n)
         THEN [st EXCEPT !.pos = @ + op.n]
         ELSE Raise(st, "ValueError")
    ELSE IF ~CanRead(buf, st.pos, op.n)
    THEN Raise(st, "ReadError")
    ELSE [st EXCEPT
            !.pos = @ + op.n,
            !.value = Put(@, op.f,
                CASE op.k = "uint" -> ReadUint(buf, st.pos, op.n)
                  [] op.k = "wide" -> ReadBits(buf, st.pos, op.n)
                  [] op.k = "bool" -> Bit(buf, st.pos) = 1
                  [] op.k = "hex" -> ReadHex(buf, st.pos, op.n \div 4))]

RECURSIVE Exec(_, _, _)
Exec(buf, st, ops) ==
    IF ops = <<>> \/ ~st.ok THEN st
    ELSE Bind(Step(buf, st, Head(ops)),
              LAMBDA s : IF s.ok THEN Exec(buf, s, Tail(ops)) ELSE s)

\* st[field] = sub-decoder's result; the sub-decoder's exception propagates
Sub(st, field, sub) ==
    Bind(sub, LAMBDA r :
        IF r.ok
        THEN [st EXCEPT !.pos = r.pos, !.value = Put(@, field, r.value)]
        ELSE [st EXCEPT !.ok = FALSE, !.err = r.err, !.pos = r.pos])

(***************************************************************************)
(* splice_time, break_duration, splice_insert, time_signal                 *)
(***************************************************************************)
ParseSpliceTime(buf, p) ==
    Bind(Exec(buf, New(p), <<Bool("time_specified_flag")>>), LAMBDA a :
        IF ~a.ok THEN a
        ELSE IF a.value["time_specified_flag"]
        THEN Exec(buf, a, <<Skip(6), Wide("pts_time", 33)>>)
        ELSE Exec(buf, a, <<Skip(7)>>))

ParseBreakDuration(buf, p) ==
    Exec(buf, New(p), <<Bool("auto_return"), Skip(6), Wide("duration", 33)>>)

\* for i in xrange(0, component_count): one component per iteration
RECURSIVE InsertComponents(_, _, _, _)
InsertComponents(buf, st, n, immediate) ==
    IF n = 0 THEN st
    ELSE Bind(Exec(buf, [New(st.pos) EXCEPT
                            !.value = Put(EmptyDict, "splice_time", PyNone)],
                   <<Uint("tag", 8)>>), LAMBDA t :
         Bind(IF t.ok /\ immediate
              THEN Sub(t, "splice_time", ParseSpliceTime(buf, t.pos))
              ELSE t, LAMBDA c :
         IF ~c.ok
         THEN [st EXCEPT !.ok = FALSE, !.err = c.err, !.pos = c.pos]
         ELSE InsertComponents(buf,
                [st EXCEPT !.pos = c.pos,
                           !.value = Put(@, "components",
                               Append(st.value["components"], c.value))],
                n - 1, immediate)))

\* what __parse_splice_insert hands back when the event is cancelled: the
\* function's only return statement is inside `if not cancel`, so control
\* falls off the end of the function
CancelledInsert(ssi) == PyNone

ParseSpliceInsert(buf, p) ==
    Bind(Exec(buf, [New(p) EXCEPT !.value = Put(EmptyDict, "components", <<>>)],
              <<Wide("splice_id", 32),
                Bool("splice_event_cancel_indicator"), Skip(7)>>), LAMBDA a :
    IF ~a.ok THEN a
    ELSE IF a.value["splice_event_cancel_indicator"]
    THEN [a EXCEPT !.value = CancelledInsert(a.value)]
    ELSE
    Bind(Exec(buf, a, <<Bool("out_of_network_indicator"),
                        Bool("program_splice_flag"),
                        Bool("duration_flag"),
                        Bool("splice_immediate_flag"), Skip(4)>>), LAMBDA b :
    Bind(IF b.ok /\ b.value["program_splice_flag"]
                 /\ ~b.value["splice_immediate_flag"]
         THEN Sub(b, "splice_time", ParseSpliceTime(buf, b.pos))
         ELSE b, LAMBDA c :
    Bind(IF c.ok /\ ~c.value["program_splice_flag"]
         THEN Bind(Exec(buf, c, <<Uint("component_count", 8)>>), LAMBDA n :
                   IF ~n.ok THEN n
                   ELSE InsertComponents(buf, n,
                            n.value["component_count"],
                            n.value["splice_immediate_flag"]))
         ELSE c, LAMBDA d :
    Bind(IF d.ok /\ d.value["duration_flag"]
         THEN Sub(d, "break_duration", ParseBreakDuration(buf, d.pos))
         ELSE d, LAMBDA e :
    IF ~e.ok THEN e
    ELSE Exec(buf, e, <<Uint("unique_program_id", 16),
                        Uint("avail_num", 8), Uint("avails_expected", 8)>>))))))

ParseTimeSignal(buf, p) == Sub(New(p), "splice_time", ParseSpliceTime(buf, p))

(***************************************************************************)
(* segmentation_descriptor                                                 *)
(***************************************************************************)
SEGMENTATION_TYPE_IDS ==
    ("00" :> "Not Indicated") @@ ("01" :> "Content Identification") @@
    ("10" :> "Program Start") @@ ("11" :> "Program End") @@
    ("12" :> "Program Early Termination") @@ ("13" :> "Program Breakaway") @@
    ("14" :> "Program Resumption") @@ ("15" :> "Program Runover Planned") @@
    ("16" :> "Program Runover Unplanned") @@ ("17" :> "Program Overlap Start") @@
    ("18" :> "Program Blackout Override") @@
    ("19" :> "Program Start - In Progress") @@
    ("20" :> "Chapter Start") @@ ("21" :> "Chapter End") @@
    ("22" :> "Break Start") @@ ("23" :> "Break End") @@
    ("30" :> "Provider Advertisement Start") @@
    ("31" :> "Provider Advertisement End") @@
    ("32" :> "Distributor Advertisement Start") @@
    ("33" :> "Distributor Advertisement End") @@
    ("34" :> "Provider Placement Opportunity Start") @@
    ("35" :> "Provider Placement Opportunity End") @@
    ("36" :> "Distributor Placement Opportunity Start") @@
    ("37" :> "Distributor Placement Opportunity End") @@
    ("40" :> "Unscheduled Event Start") @@ ("41" :> "Unscheduled Event End") @@
    ("50" :> "Network Start") @@ ("51" :> "Network End")

\* if type_id in SEGMENTATION_TYPE_IDS: type_id = SEGMENTATION_TYPE_IDS[type_id]
LookupTypeId(code) ==
    IF code \in DOMAIN SEGMENTATION_TYPE_IDS
    THEN SEGMENTATION_TYPE_IDS[code] ELSE code

\* a gate evaluated after the label has replaced the code
SubSegmentGateAfterLookup(code) == LookupTypeId(code) \in {"34", "36"}

\* if segmentation_descriptor["segmentation_type_id"] in ["34", "36"]
SubSegmentGate(code) == code \in {"34", "36"}

\* return bitarray.read(length * 8).hex; upid_type is not used
ParseSegmentationUpid(buf, p, upid_type, len) ==
    IF CanRead(buf, p, 8 * len)
    THEN [New(p + 8 * len) EXCEPT !.value = ReadHex(buf, p, 2 * len)]
    ELSE Raise(New(p), "ReadError")

RECURSIVE SegmentationComponents(_, _, _)
SegmentationComponents(buf, st, n) ==
    IF n = 0 THEN st
    ELSE Bind(Exec(buf, New(st.pos),
                   <<Uint("component_tag", 8), Skip(7), Wide("pts_offset", 33)>>),
              LAMBDA c :
         IF ~c.ok
         THEN [st EXCEPT !.ok = FALSE, !.err = c.err, !.pos = c.pos]
         ELSE SegmentationComponents(buf,
                [st EXCEPT !.pos = c.pos,
                           !.value = Put(@, "components",
                               Append(st.value["components"], c.value))],
                n - 1))

\* int(segmentation_upid_type, 16) of the two hex digits
UpidTypeNumber(hex) ==
    16 * HexValue(SubSeq(hex, 1, 1)) + HexValue(SubSeq(hex, 2, 2))

ParseSegmentationDescriptor(buf, p, tag, len) ==
    Bind(Exec(buf,
              [New(p) EXCEPT !.value =
                  Put(Put(EmptyDict, "splice_descriptor_tag", tag),
                      "descriptor_length", len)],
              <<Wide("identifier", 32), Wide("segmentation_event_id", 32),
                Bool("segmentation_event_cancel_indicator"), Skip(7)>>), LAMBDA a :
    IF ~a.ok THEN a
    ELSE IF a.value["segmentation_event_cancel_indicator"] THEN a
    ELSE
    Bind(Exec(buf, a, <<Bool("program_segmentation_flag"),
                        Bool("segmentation_duration_flag"),
                        Bool("delivery_not_restricted_flag")>>), LAMBDA b :
    Bind(IF ~b.ok THEN b
         ELSE IF ~b.value["delivery_not_restricted_flag"]
         THEN Exec(buf, b, <<Bool("web_delivery_allowed_flag"),
                             Bool("no_regional_blackout_flag"),
                             Bool("archive_allowed_flag"),
                             Uint("device_restrictions", 2)>>)
         ELSE Exec(buf, b, <<Skip(5)>>), LAMBDA c :
    Bind(IF c.ok /\ ~c.value["program_segmentation_flag"]
         THEN Bind(Exec(buf, c, <<Uint("component_count", 8)>>), LAMBDA n :
                   IF ~n.ok THEN n
                   ELSE SegmentationComponents(buf,
                            [n EXCEPT !.value = Put(@, "components", <<>>)],
                            n.value["component_count"]))
         ELSE c, LAMBDA d :
    Bind(IF d.ok /\ d.value["segmentation_duration_flag"]
         THEN Exec(buf, d, <<Wide("segmentation_duration", 40)>>)
         ELSE d, LAMBDA e :
    Bind(IF ~e.ok THEN e
         ELSE Exec(buf, e, <<Hex("segmentation_upid_type", 2),
                             Uint("segmentation_upid_length", 8)>>), LAMBDA f :
    Bind(IF ~f.ok THEN f
         ELSE Sub(f, "segmentation_upid",
                  ParseSegmentationUpid(buf, f.pos,
                      UpidTypeNumber(f.value["segmentation_upid_type"]),
                      f.value["segmentation_upid_length"])), LAMBDA g :
    Bind(IF ~g.ok THEN g
         ELSE Exec(buf, g, <<Hex("segmentation_type_id", 2),
                             Uint("segment_num", 8),
                             Uint("segments_expected", 8)>>), LAMBDA h :
    Bind(IF h.ok /\ SubSegmentGate(h.value["segmentation_type_id"])
         THEN Exec(buf, h, <<Uint("sub_segment_num", 8),
                             Uint("sub_segments_expected", 8)>>)
         ELSE h, LAMBDA i :
    IF ~i.ok THEN i
    ELSE [i EXCEPT !.value = Put(@, "segmentation_type_id",
                        LookupTypeId(i.value["segmentation_type_id"]))])))))))))

(***************************************************************************)
(* The descriptor loop: one iteration of `while length:`                   *)
(***************************************************************************)
SEGMENTATION_DESCRIPTOR == 2

Stub(tag, len) ==
    Put(Put(EmptyDict, "splice_descriptor_tag", tag), "descriptor_length", len)

\* the cursor after the else branch that records a non-segmentation
\* descriptor starting (body) at p: the branch builds the dict and reads
\* nothing
AfterGenericDescriptor(p, len) == p

\* a loop without the end-of-buffer case
NeverAtEnd(buf, p) == FALSE

\* if bitarray.pos == bitarray.len, p being the cursor after the tag
AtEnd(buf, p) == p = BitLen(buf)

LoopBody(buf, p, budget, res) ==
    LET it == [ok |-> TRUE, err |-> "", pos |-> p, length |-> budget, results |-> res]
    IN  IF ~CanRead(buf, p, 8)
        THEN [it EXCEPT !.ok = FALSE, !.err = "ReadError"]
        ELSE
        Bind(ReadUint(buf, p, 8), LAMBDA tag :
        IF AtEnd(buf, p + 8)
        THEN [it EXCEPT !.pos = p + 8, !.length = 0,
                        !.results = Append(res, Stub(tag, 0))]
        ELSE IF ~CanRead(buf, p + 8, 8)
        THEN [it EXCEPT !.ok = FALSE, !.err = "ReadError", !.pos = p + 8]
        ELSE
        Bind(ReadUint(buf, p + 8, 8), LAMBDA len :
        IF tag = SEGMENTATION_DESCRIPTOR
        THEN Bind(ParseSegmentationDescriptor(buf, p + 16, tag, len), LAMBDA sd :
                  IF sd.ok
                  THEN [it EXCEPT !.pos = sd.pos, !.length = budget - (len + 2),
                                  !.results = Append(res, sd.value)]
                  ELSE [it EXCEPT !.ok = FALSE, !.err = sd.err, !.pos = sd.pos,
                                  !.length = budget - (len + 2)])
        ELSE [it EXCEPT !.pos = AfterGenericDescriptor(p + 16, len),
                        !.length = budget - (len + 2),
                        !.results = Append(res, Stub(tag, len))]))

\* `while length:` is Python truthiness: any budget other than 0 continues
LoopContinues(budget) == budget # 0

\* an iteration whose exception is swallowed inside the loop
CarryOn(it) == "descriptors"

\* where control goes after an iteration: back to the loop test, or, the
\* exception having left __parse_splice_descriptors, to parse's handler,
\* which prints it and falls through to the return
AfterIteration(it) == IF it.ok THEN "descriptors" ELSE "return"

\* a handler that keeps what the loop had collected
KeepCollected(sec, res) == Put(sec, "splice_descriptors", PyList(res))

\* the section after parse's `except Exception as err: print(err)`: the
\* assignment of line 133 never happened, the key keeps the None of line 129
SectionAfterFailure(sec, res) == sec

(***************************************************************************)
(* parse                                                                   *)
(***************************************************************************)
TABLE_ID == 252

\* a check against the wrong constant
TableIdAccepted0(table_id) == table_id = 0

TableIdAccepted(table_id) == table_id = TABLE_ID

HeaderOps ==
    <<Bool("section_syntax_indicator"), Bool("private_indicator"), Skip(2),
      Uint("section_length", 12), Uint("protocol_version", 8),
      Bool("encrypted_packet"), Uint("encryption_algorithm", 6),
      Wide("pts_adjustment", 33), Uint("cw_index", 8), Hex("tier", 3),
      Uint("splice_command_length", 12), Uint("splice_command_type", 8)>>

\* a dispatch that sends every command type but 5 to the time_signal decoder
DispatchElse(buf, p, type) ==
    IF type = 5 THEN ParseSpliceInsert(buf, p) ELSE ParseTimeSignal(buf, p)

Dispatch(buf, p, type) ==
    IF type = 5 THEN ParseSpliceInsert(buf, p)
    ELSE IF type = 6 THEN ParseTimeSignal(buf, p)
    ELSE Raise(New(p), "UnsupportedSpliceCommand")

ReadTableId ==
    /\ pc = "start"
    /\ IF ~CanRead(input, pos, 8)
       THEN /\ pc' = "raised"
            /\ err' = "ReadError"
            /\ UNCHANGED <<pos, section>>
       ELSE /\ pos' = pos + 8
            /\ IF TableIdAccepted(ReadUint(input, pos, 8))
               THEN /\ section' = EmptyDict
                    /\ pc' = "header"
                    /\ UNCHANGED err
               ELSE /\ pc' = "raised"
                    /\ err' = "InvalidTableId"
                    /\ UNCHANGED section
    /\ UNCHANGED <<input, length, results, ret>>

ReadHeader ==
    /\ pc = "header"
    /\ \E h \in {Exec(input, [New(pos) EXCEPT !.value = section], HeaderOps)} :
           /\ pos' = h.pos
           /\ section' = h.value
           /\ err' = h.err
           /\ pc' = IF h.ok THEN "command" ELSE "raised"
    /\ UNCHANGED <<input, length, results, ret>>

SpliceCommand ==
    /\ pc = "command"
    /\ \E c \in {Dispatch(input, pos, section["splice_command_type"])} :
           /\ pos' = c.pos
           /\ err' = c.err
           /\ IF c.ok
              THEN /\ section' = Put(section, "splice_command", c.value)
                   /\ pc' = "loop_length"
              ELSE /\ pc' = "raised"
                   /\ UNCHANGED section
    /\ UNCHANGED <<input, length, results, ret>>

ReadLoopLength ==
    /\ pc = "loop_length"
    /\ \E l \in {Exec(input, [New(pos) EXCEPT !.value = section],
                      <<Uint("splice_descriptor_loop_length", 16)>>)} :
           /\ pos' = l.pos
           /\ err' = l.err
           /\ IF l.ok
              THEN /\ section' = Put(l.value, "splice_descriptors", PyNone)
                   /\ IF l.value["splice_descriptor_loop_length"] > 0
                      THEN /\ pc' = "descriptors"
                           /\ length' = l.value["splice_descriptor_loop_length"]
                           /\ results' = <<>>
                      ELSE /\ pc' = "return"
                           /\ UNCHANGED <<length, results>>
              ELSE /\ pc' = "raised"
                   /\ UNCHANGED <<section, length, results>>
    /\ UNCHANGED <<input, ret>>

DescriptorIteration ==
    /\ pc = "descriptors"
    /\ LoopContinues(length)
    /\ \E it \in {LoopBody(input, pos, length, results)} :
           /\ pos' = it.pos
           /\ length' = it.length
           /\ results' = it.results
           /\ err' = it.err
           /\ pc' = AfterIteration(it)
           /\ section' = IF it.ok THEN section
                         ELSE SectionAfterFailure(section, it.results)
    /\ UNCHANGED <<input, ret>>

DescriptorsDone ==
    /\ pc = "descriptors"
    /\ ~LoopContinues(length)
    /\ section' = Put(section, "splice_descriptors", PyList(results))
    /\ pc' = "return"
    /\ UNCHANGED <<input, pos, length, results, err, ret>>

Return ==
    /\ pc = "return"
    /\ ret' = Returned(section)
    /\ pc' = "done"
    /\ UNCHANGED <<input, pos, section, length, results, err>>

(***************************************************************************)
(* The input buffers: sections laid out as the decoder reads them, with    *)
(* declared lengths that may disagree with the bytes that follow, trailing *)
(* bytes after the descriptor region, and truncated tails.                 *)
(***************************************************************************)
MaxDescriptors == 2     \* descriptors laid out in the descriptor region
MaxTruncate == 1        \* bytes cut off the end of a section with descriptors
MaxComponents == 1      \* components of a splice_insert / segmentation descriptor

RECURSIVE Repeat(_, _)
Repeat(s, n) == IF n = 0 THEN <<>> ELSE s \o Repeat(s, n - 1)

B(flag) == IF flag THEN 1 ELSE 0

TableIds == {252, 0, 253}
CommandTypes == {0, 5, 6, 7, 255}

HeaderBytes(table_id, type) ==
    <<table_id, 48, 37, 0, 1, 0, 0, 0, 9, 0, 255, 240, 20, type>>

SpliceTimeBytes(specified) ==
    IF specified THEN <<254, 0, 0, 0, 100>> ELSE <<127>>

SpliceInsertBytes(cancel, program, duration, immediate, specified, count) ==
    <<0, 0, 0, 1>> \o
    (IF cancel THEN <<255>>
     ELSE <<127, 128 + 64 * B(program) + 32 * B(duration) + 16 * B(immediate) + 15>>
          \o (IF program /\ ~immediate THEN SpliceTimeBytes(specified) ELSE <<>>)
          \o (IF ~program
              THEN <<count>> \o
                   Repeat(<<7>> \o (IF immediate THEN SpliceTimeBytes(specified)
                                    ELSE <<>>), count)
              ELSE <<>>)
          \o (IF duration THEN <<254, 0, 82, 101, 192>> ELSE <<>>)
          \o <<0, 1, 0, 0>>)

CommandBytes(type) ==
    IF type = 5
    THEN {SpliceInsertBytes(TRUE, FALSE, FALSE, FALSE, FALSE, 0)} \cup
         {SpliceInsertBytes(FALSE, pr, du, im, sp, n) :
             pr \in BOOLEAN, du \in BOOLEAN, im \in BOOLEAN,
             sp \in BOOLEAN, n \in 0..MaxComponents}
    ELSE {SpliceTimeBytes(sp) : sp \in BOOLEAN}

Prefixes(s) == {SubSeq(s, 1, n) : n \in 0..Len(s)}

\* sections without descriptors, and every prefix of them
PlainSections ==
    UNION {Prefixes(HeaderBytes(t, c) \o cmd \o <<0, 0>>) :
             <<t, c, cmd>> \in {<<t, c, cmd>> \in
                 TableIds \X CommandTypes \X UNION {CommandBytes(k) : k \in CommandTypes} :
                 cmd \in CommandBytes(c)}}

SegmentationTypes == {52, 53, 54, 153}          \* 0x34 0x35 0x36 0x99

SegmentationBody(cancel, program, duration, unrestricted, upid, type) ==
    <<67, 85, 69, 73, 0, 0, 0, 1>> \o
    (IF cancel THEN <<255>>
     ELSE <<127, 128 * B(program) + 64 * B(duration) + 32 * B(unrestricted)
                 + (IF unrestricted THEN 31 ELSE 21)>>
          \o (IF ~program
              THEN <<MaxComponents>> \o Repeat(<<1, 254, 0, 0, 0, 5>>, MaxComponents)
              ELSE <<>>)
          \o (IF duration THEN <<0, 0, 41, 50, 224>> ELSE <<>>)
          \o <<9, Len(upid)>> \o upid
          \o <<type, 1, 2>>
          \o (IF type \in {52, 54} THEN <<0, 3>> ELSE <<>>))

SegmentationBodies ==
    {SegmentationBody(TRUE, TRUE, FALSE, TRUE, <<>>, 0)} \cup
    {SegmentationBody(FALSE, TRUE, FALSE, TRUE, <<>>, t) : t \in SegmentationTypes} \cup
    {SegmentationBody(FALSE, FALSE, TRUE, FALSE, <<171>>, 34)}     \* 0x22

\* a descriptor: tag, declared length, body; the declared length of a
\* segmentation descriptor may be off by one either way
DescriptorItems ==
    {<<0, 0>>, <<1, 1, 2>>} \cup
    {<<2, Len(b)>> \o b : b \in SegmentationBodies} \cup
    {<<2, Len(b) + 1>> \o b : b \in {SegmentationBody(TRUE, TRUE, FALSE, TRUE, <<>>, 0)}} \cup
    {<<2, Len(b) - 1>> \o b : b \in {SegmentationBody(FALSE, TRUE, FALSE, TRUE, <<>>, 53)}}

RECURSIVE Regions(_)
Regions(n) ==
    IF n = 0 THEN {<<>>}
    ELSE {<<>>} \cup {i \o r : <<i, r>> \in DescriptorItems \X Regions(n - 1)}

LoopLengthBytes(n) == <<n \div 256, n % 256>>

\* time_signal sections with a descriptor region: the declared loop length is the
\* region's length or one off, bytes may follow the region, the tail may
\* be cut
DescriptorSections ==
    {SubSeq(whole, 1, Len(whole) - k) :
        <<whole, k>> \in
          {HeaderBytes(TABLE_ID, 6) \o SpliceTimeBytes(FALSE)
                \o LoopLengthBytes(Len(r) + d) \o r \o t :
              <<r, d, t>> \in
                {<<r, d, t>> \in
                    Regions(MaxDescriptors) \X {-1, 0, 1} \X {<<>>, <<2, 9>>} :
                    Len(r) + d >= 0}}
          \X (0..MaxTruncate)}

Inputs == PlainSections \cup DescriptorSections

Init ==
    /\ input \in Inputs
    /\ pos = 0
    /\ pc = "start"
    /\ section = Unbound
    /\ length = 0
    /\ results = <<>>
    /\ err = ""
    /\ ret = NoResult

Next ==
    \/ ReadTableId
    \/ ReadHeader
    \/ SpliceCommand
    \/ ReadLoopLength
    \/ DescriptorIteration
    \/ DescriptorsDone
    \/ Return

Spec == Init /\ [][Next]_vars

(***************************************************************************)
(* Properties                                                              *)
(***************************************************************************)
HeaderFields ==
    {"section_syntax_indicator", "private_indicator", "section_length",
     "protocol_version", "encrypted_packet", "encryption_algorithm",
     "pts_adjustment", "cw_index", "tier", "splice_command_length",
     "splice_command_type"}

\* the bits of the header, table_id to splice_command_type
HeaderBits == 8 + 1 + 1 + 2 + 12 + 8 + 1 + 6 + 33 + 8 + 12 + 12 + 8
Finished == pc \in {"done", "raised"}

\* C1: a buffer whose first byte is not 0xFC makes parse raise the
\* invalid-table-id error right after the first byte: nothing else is read,
\* the section dict is never created and nothing is returned.
C1_InvalidTableIdAborts ==
    (Len(input) >= 1 /\ input[1] # TABLE_ID) =>
        /\ pc \in {"start", "raised"}
        /\ pc = "raised" =>
              /\ err = "InvalidTableId"
              /\ pos = 8
              /\ section = Unbound
              /\ ret = NoResult

C1_Witness ==
    /\ pc = "raised"
    /\ err = "InvalidTableId"
    /\ Len(input) > 14

\* C2: with table id 0xFC and a complete header, a splice_command_type other
\* than 5 or 6 makes parse raise the unsupported-splice-command error with
\* the header fields decoded and nothing returned; for type 5 the
\* splice_command is what the splice_insert decoder yields, for type 6 what
\* the time_signal decoder yields, and those two never raise that error.
C2_CommandDispatch ==
    /\ (Len(input) >= 14 /\ input[1] = TABLE_ID /\ input[14] \notin {5, 6}) =>
          /\ pc \in {"start", "header", "command", "raised"}
          /\ pc = "raised" =>
                /\ err = "UnsupportedSpliceCommand"
                /\ ret = NoResult
                /\ DOMAIN section = HeaderFields
                /\ section["splice_command_type"] = input[14]
                /\ pos = HeaderBits
    /\ "splice_command" \in DOMAIN section =>
          /\ section["splice_command_type"] \in {5, 6}
          /\ section["splice_command_type"] = 6 =>
                DOMAIN section["splice_command"] = {"splice_time"}
          /\ section["splice_command_type"] = 5 =>
                \/ section["splice_command"] = PyNone
                \/ "splice_id" \in DOMAIN section["splice_command"]
    /\ (pc = "raised" /\ "splice_command_type" \in DOMAIN section
           /\ section["splice_command_type"] \in {5, 6}) =>
          err # "UnsupportedSpliceCommand"

C2_Witness ==
    /\ pc = "raised"
    /\ err = "UnsupportedSpliceCommand"
    /\ Len(input) > 14
    /\ section["splice_command_type"] = 7

\* C3: a section with splice_command_type 5 and the cancel indicator set
\* has as splice command a record holding the splice event id and
\* splice_event_cancel_indicator = TRUE and no other splice_insert field.
C3_CancelledInsertRecord ==
    ("splice_command" \in DOMAIN section /\ section["splice_command_type"] = 5
        /\ input[19] >= 128) =>
        /\ DOMAIN section["splice_command"] =
              {"splice_id", "splice_event_cancel_indicator"}
        /\ section["splice_command"]["splice_event_cancel_indicator"] = TRUE

C5_GenericBodySkipped ==
    [][(/\ pc = "descriptors"
        /\ length # 0
        /\ CanRead(input, pos, 16)
        /\ pos + 8 # BitLen(input)
        /\ ReadUint(input, pos, 8) # SEGMENTATION_DESCRIPTOR
        /\ CanRead(input, pos + 16, 8 * ReadUint(input, pos + 8, 8))) =>
            /\ results' = Append(results, Stub(ReadUint(input, pos, 8),
                                               ReadUint(input, pos + 8, 8)))
            /\ pos' = pos + 16 + 8 * ReadUint(input, pos + 8, 8)]_vars

\* C6: with a budget that is zero or negative the loop stops: no further
\* tag is read, no error is raised, and the descriptors collected so far
\* are returned.
C6_StopsWhenNotPositive ==
    [][(pc = "descriptors" /\ length <= 0) =>
            /\ pos' = pos
            /\ err' = ""
            /\ pc' = "return"
            /\ section'["splice_descriptors"] = PyList(results)]_vars

\* the bytes the decoded fields of segmentation descriptor d take in the buffer
SegmentationBytes(d) ==
    9 + (IF "segmentation_type_id" \in DOMAIN d
         THEN 1 + (IF "components" \in DOMAIN d THEN 1 + 6 * Len(d["components"]) ELSE 0)
                + (IF "segmentation_duration" \in DOMAIN d THEN 5 ELSE 0)
                + 2 + d["segmentation_upid_length"] + 3
                + (IF "sub_segment_num" \in DOMAIN d THEN 2 ELSE 0)
         ELSE 0)

\* the segmentation_type_id byte of d as two hex digits, d ending at bit `after`
RawTypeId(d, after) ==
    ReadHex(input, after - 24 - (IF "sub_segment_num" \in DOMAIN d THEN 16 ELSE 0), 2)

\* C7: an iteration that decodes a segmentation descriptor whose cancel
\* indicator is false gives it sub_segment_num and sub_segments_expected,
\* and consumes their two bytes, exactly when the raw type id byte renders
\* as "34" or "36"; the stored type id is the label looked up for that raw
\* code (or the code itself), and the cursor ends after the last field.
C7_SubSegmentGate ==
    [][(/\ pc = "descriptors"
        /\ Len(results') = Len(results) + 1
        /\ "segmentation_type_id" \in DOMAIN results'[Len(results')]) =>
            LET d == results'[Len(results')]
            IN  /\ ("sub_segment_num" \in DOMAIN d) <=> (RawTypeId(d, pos') \in {"34", "36"})
                /\ ("sub_segments_expected" \in DOMAIN d) <=> ("sub_segment_num" \in DOMAIN d)
                /\ d["segmentation_type_id"] = LookupTypeId(RawTypeId(d, pos'))
                /\ pos' = pos + 16 + 8 * SegmentationBytes(d)]_vars

C7_Witness ==
    /\ Len(results) = 2
    /\ "sub_segment_num" \in DOMAIN results[1]
    /\ results[1]["segmentation_type_id"] = "Provider Placement Opportunity Start"
    /\ "segmentation_type_id" \in DOMAIN results[2]
    /\ results[2]["segmentation_type_id"] = "Provider Placement Opportunity End"
    /\ "sub_segment_num" \notin DOMAIN results[2]

\* C8: an iteration that decodes a segmentation descriptor with declared
\* length L leaves the cursor 8*L bits past the length byte.
C8_SegmentationConsumesDeclared ==
    [][(/\ pc = "descriptors"
        /\ length # 0
        /\ CanRead(input, pos, 16)
        /\ pos + 8 # BitLen(input)
        /\ ReadUint(input, pos, 8) = SEGMENTATION_DESCRIPTOR
        /\ Len(results') = Len(results) + 1) =>
            pos' = pos + 16 + 8 * ReadUint(input, pos + 8, 8)]_vars

\* C9: when the tag just read was the last byte of the buffer, whatever the
\* tag and the budget, the iteration appends the stub {tag, 0}, reads no
\* length byte, sets the budget to zero and raises nothing; the loop then
\* returns the list, whose last element is that stub.
C9_TrailingTag ==
    [][/\ (/\ pc = "descriptors"
           /\ length # 0
           /\ CanRead(input, pos, 8)
           /\ pos + 8 = BitLen(input)) =>
               /\ results' = Append(results, Stub(ReadUint(input, pos, 8), 0))
               /\ pos' = pos + 8
               /\ length' = 0
               /\ err' = ""
               /\ pc' = "descriptors"
       /\ (pc = "descriptors" /\ length = 0) =>
               /\ pc' = "return"
               /\ pos' = pos
               /\ err' = err
               /\ section' = Put(section, "splice_descriptors", PyList(results))]_vars

C9_Witness ==
    /\ pc = "return"
    /\ err = ""
    /\ pos = BitLen(input)
    /\ section["splice_descriptors"] # PyNone
    /\ Len(section["splice_descriptors"].items) = 2
    /\ section["splice_descriptors"].items[2] = Stub(SEGMENTATION_DESCRIPTOR, 0)

\* the stages of parse still ahead
Stage(p) ==
    CASE p = "start" -> 6 [] p = "header" -> 5 [] p = "command" -> 4
      [] p = "loop_length" -> 3 [] p = "descriptors" -> 2 [] p = "return" -> 1
      [] p \in {"done", "raised"} -> 0

Variant == Stage(pc) * (BitLen(input) + 1) + (BitLen(input) - pos)

\* C10: parse always finishes, with a returned section or a fatal error:
\* the cursor never moves backwards and stays inside the buffer, an
\* iteration of the descriptor loop that is followed by another one has
\* consumed at least the 8 bits of its tag, every step of parse strictly
\* decreases a natural number (the stages left, then the bits left), and
\* what parse ends in is a returned section or a raised error.
C10_Terminates ==
    /\ [][/\ pos' >= pos
          /\ (pc = "descriptors" /\ pc' = "descriptors") => pos' >= pos + 8
          /\ Variant' < Variant]_vars
    /\ [](Variant >= 0 /\ pos <= BitLen(input))
    /\ [](Finished =>
            \/ pc = "done" /\ ret = Returned(section)
            \/ pc = "raised" /\ err # "" /\ ret = NoResult)

C10_Witness ==
    /\ pc = "done"
    /\ length < 0
    /\ err = "ReadError"

====
